---- MODULE Spec2Model ----
(***************************************************************************)
(* Provisioning pipeline of the streaming control plane:                   *)
(*   UploadEventWorker.handleMessage                                       *)
(*   ChannelProvisioner.provisionFromUpload                                *)
(*   ReconciliationService.reconcileFailed                                 *)
(*   StreamAdminService.retire                                             *)
(* Every await of the source is one step of the task that executes it; the *)
(* synchronous code that follows an await runs in the same step.  Every    *)
(* external call (repository, engine, publisher, alerting, cdn) either     *)
(* succeeds or fails.  Of ChannelMetadata the fields contentId, channelId, *)
(* originEndpoint, cacheKey, checksum, status and retries are kept; the    *)
(* other fields are copied from the event and never read by the pipeline.  *)
(* Each task keeps a log of the external calls of its current operation.   *)
(***************************************************************************)
EXTENDS Integers, Sequences, FiniteSets, TLC

VARIABLES store, msgs, pc, loc, wk, rq, adm, createdOK, ops, faults

vars == <<store, msgs, pc, loc, wk, rq, adm, createdOK, ops, faults>>

(* ------------------------------ bounds --------------------------------- *)
MaxOps == 3
MaxRetries == 3
MaxFaults == 3
MaxLimit == 2
CountCap == 2

ContentIds == {"c1", "c2"}
Checksums == {"s1", "s2"}
MessageIds == {"m1", "m2", "m3", "m4"}
Limits == 1..MaxLimit

(* --------------------------- configuration ----------------------------- *)
maxDeliveryAttempts == 2
ackDeadlineSeconds == 30
maxProvisionRetries == 1

(* ------------------------------ processes ------------------------------ *)
Worker == "w1"
Reconciler == "rec"
Admin == "adm"
\* two direct calls of provisionFromUpload, as concurrent tasks make them
Callers == {"call1", "call2"}
Provisioners == {Worker, Reconciler} \cup Callers
Procs == Provisioners \cup {Admin}

(* ------------------------------- values -------------------------------- *)
NoRecord == [status |-> "absent"]
NoEvent == [eventType |-> "none"]
NoResponse == [channelId |-> "none"]
NoMessage == [messageId |-> "none"]
NoVerdict == [action |-> "none"]
Rejected == [action |-> "rejected"]

UploadCompletedEvent(c, s) ==
  [eventType |-> "media.uploaded", contentId |-> c, checksum |-> s]

\* the decoded content of each message's data
Data(m) ==
  CASE m = "m1" -> UploadCompletedEvent("c1", "s1")
    [] m = "m2" -> UploadCompletedEvent("c1", "s2")
    [] m = "m3" -> [eventType |-> "media.deleted", contentId |-> "c1",
                    checksum |-> "s1"]
    [] OTHER    -> UploadCompletedEvent("c2", "s1")

\* m2 is published by a subscription that does not set deliveryAttempt
CarriesAttempt(m) == m # "m2"

PubSubMessage(m, n) ==
  IF CarriesAttempt(m)
  THEN [messageId |-> m, data |-> Data(m), deliveryAttempt |-> n]
  ELSE [messageId |-> m, data |-> Data(m)]

\* the results the engine may return for createChannel
Responses ==
  { [channelId |-> "ch1", originEndpoint |-> "origin1"],
    [channelId |-> "ch2", originEndpoint |-> "origin2"] }

Min(a, b) == IF a < b THEN a ELSE b

\* one observable effect of a task, kept in the task's log
Eff(op, cid, status, retries, channelId) ==
  [op |-> op, cid |-> cid, status |-> status, retries |-> retries,
   channelId |-> channelId]

Call(op, cid, outcome) == Eff(op, cid, outcome, 0, "-")

UpsertEff(r) == Eff("upsert", r.contentId, r.status, r.retries, r.channelId)

(* --------------------------- pure functions ---------------------------- *)
\* sha1 of "contentId:checksum": distinct inputs give distinct keys
buildCacheKey(contentId, checksum) == <<contentId, checksum>>

\* ignores the deliveryAttempt of the message
AttemptOf_Ignored(message) == 1

AttemptOf(message) ==
  IF "deliveryAttempt" \in DOMAIN message THEN message.deliveryAttempt ELSE 1

shouldAck(attempt) == attempt >= maxDeliveryAttempts

ParseOk(data) == data.eventType = "media.uploaded"

\* compares the checksums the wrong way round
IdempotencyGate_Inverted(existing, event) ==
  /\ existing # NoRecord
  /\ existing.checksum # event.checksum
  /\ existing.status = "ready"

IdempotencyGate(existing, event) ==
  /\ existing # NoRecord
  /\ existing.checksum = event.checksum
  /\ existing.status = "ready"

\* reuses the cache key of the record it found
BaseRecord_KeyKept(event, existing) ==
  [contentId      |-> event.contentId,
   channelId      |-> IF existing # NoRecord THEN existing.channelId
                      ELSE "pending",
   originEndpoint |-> IF existing # NoRecord THEN existing.originEndpoint
                      ELSE "pending",
   cacheKey       |-> IF existing # NoRecord THEN existing.cacheKey
                      ELSE buildCacheKey(event.contentId, event.checksum),
   checksum       |-> event.checksum,
   status         |-> "provisioning",
   retries        |-> IF existing # NoRecord THEN existing.retries + 1 ELSE 0]

\* counts the first provisioning as a retry
BaseRecord_CountsFirst(event, existing) ==
  [contentId      |-> event.contentId,
   channelId      |-> IF existing # NoRecord THEN existing.channelId
                      ELSE "pending",
   originEndpoint |-> IF existing # NoRecord THEN existing.originEndpoint
                      ELSE "pending",
   cacheKey       |-> buildCacheKey(event.contentId, event.checksum),
   checksum       |-> event.checksum,
   status         |-> "provisioning",
   retries        |-> IF existing # NoRecord THEN existing.retries + 1 ELSE 1]

BaseRecord(event, existing) ==
  [contentId      |-> event.contentId,
   channelId      |-> IF existing # NoRecord THEN existing.channelId
                      ELSE "pending",
   originEndpoint |-> IF existing # NoRecord THEN existing.originEndpoint
                      ELSE "pending",
   cacheKey       |-> buildCacheKey(event.contentId, event.checksum),
   checksum       |-> event.checksum,
   status         |-> "provisioning",
   retries        |-> IF existing # NoRecord THEN existing.retries + 1 ELSE 0]

\* forgets to set the status of the terminal record
FailedRecord_StatusKept(base) == [base EXCEPT !.retries = base.retries + 1]

FailedRecord(base) ==
  [base EXCEPT !.status = "failed", !.retries = base.retries + 1]

\* forgets to take the channelId of the engine's response
FinalRecord_ChannelKept(base, response) ==
  [base EXCEPT !.originEndpoint = response.originEndpoint,
               !.status = "ready"]

\* counts the successful provisioning as one more retry
FinalRecord_RetriesBumped(base, response) ==
  [base EXCEPT !.channelId = response.channelId,
               !.originEndpoint = response.originEndpoint,
               !.status = "ready",
               !.retries = base.retries + 1]

\* forgets to set the status of the final record
FinalRecord_StatusKept(base, response) ==
  [base EXCEPT !.channelId = response.channelId,
               !.originEndpoint = response.originEndpoint]

FinalRecord(base, response) ==
  [base EXCEPT !.channelId = response.channelId,
               !.originEndpoint = response.originEndpoint,
               !.status = "ready"]

RetiredRecord(record) == [record EXCEPT !.status = "retired"]

ReplayEvent(record) == UploadCompletedEvent(record.contentId, record.checksum)

\* the retry envelope gives up once maxProvisionRetries retries have failed
RetryExhausted(tries) == tries >= maxProvisionRetries

\* every ordering of at most limit of the failed records
ListFailed(limit) ==
  LET failedIds == {c \in ContentIds : store[c].status = "failed"}
      n == Min(limit, Cardinality(failedIds))
      orders == { q \in [1..n -> failedIds] :
                    \A i, j \in 1..n : i # j => q[i] # q[j] }
  IN { [i \in 1..n |-> store[q[i]]] : q \in orders }

(* ------------------------------- state --------------------------------- *)
FreshLocals ==
  [event |-> NoEvent, existing |-> NoRecord, tries |-> 0,
   response |-> NoResponse, result |-> NoRecord, err |-> "none", log |-> <<>>]

FreshWorker == [message |-> NoMessage, prevErr |-> "none", verdict |-> NoVerdict]

Init ==
  /\ store = [c \in ContentIds |-> NoRecord]
  /\ msgs = [m \in MessageIds |->
               [deliveries |-> 0, nacks |-> 0, acked |-> FALSE,
                lastErr |-> "none"]]
  /\ pc = [p \in Procs |-> "idle"]
  /\ loc = [p \in Provisioners |-> FreshLocals]
  /\ wk = FreshWorker
  /\ rq = <<>>
  /\ adm = NoRecord
  /\ createdOK = [k \in ContentIds \X Checksums |-> 0]
  /\ ops = [retire |-> 0, reconcile |-> 0]
  /\ faults = 0

RECURSIVE SumOver(_, _)
SumOver(f, S) ==
  IF S = {} THEN 0
  ELSE LET x == CHOOSE y \in S : TRUE IN f[x] + SumOver(f, S \ {x})

\* the number of deliveries made so far, over all messages
Delivered == SumOver([m \in MessageIds |-> msgs[m].deliveries], MessageIds)

\* the deliveries, reconciliation runs and retire calls started so far
Started == Delivered + ops.reconcile + ops.retire

\* an external call fails: at most MaxFaults calls fail in one behaviour
Fault == faults < MaxFaults /\ faults' = faults + 1

\* keeps the retries counter of the model finite
CanProvision(c) ==
  store[c] # NoRecord => store[c].retries + 2 <= MaxRetries

(* ------------- continuations of provisionFromUpload's caller ----------- *)
\* reconcileFailed: the for loop moves on to the next record of the run
ReplayNext(lg) ==
  /\ rq' = Tail(rq)
  /\ IF Tail(rq) = <<>>
     THEN /\ pc' = [pc EXCEPT ![Reconciler] = "idle"]
          /\ loc' = [loc EXCEPT ![Reconciler] =
                       [FreshLocals EXCEPT !.log = lg]]
     ELSE /\ pc' = [pc EXCEPT ![Reconciler] = "find"]
          /\ loc' = [loc EXCEPT ![Reconciler] =
                       [FreshLocals EXCEPT
                          !.event = ReplayEvent(Head(Tail(rq))),
                          !.log = lg]]

\* reconcileFailed publishes the playback-ready notification of a replay
Returned_NotifiesReplay(p, metadata, lg) ==
  IF p = Worker
  THEN /\ pc' = [pc EXCEPT ![p] = "publish"]
       /\ loc' = [loc EXCEPT ![p].result = metadata, ![p].log = lg]
       /\ UNCHANGED rq
  ELSE IF p \in Callers
  THEN /\ pc' = [pc EXCEPT ![p] = "returned"]
       /\ loc' = [loc EXCEPT ![p].result = metadata, ![p].log = lg]
       /\ UNCHANGED rq
  ELSE ReplayNext(Append(lg, Call("publish", metadata.contentId, "ok")))

\* provisionFromUpload returns metadata to its caller
Returned(p, metadata, lg) ==
  IF p = Worker
  THEN /\ pc' = [pc EXCEPT ![p] = "publish"]
       /\ loc' = [loc EXCEPT ![p].result = metadata, ![p].log = lg]
       /\ UNCHANGED rq
  ELSE IF p \in Callers
  THEN /\ pc' = [pc EXCEPT ![p] = "returned"]
       /\ loc' = [loc EXCEPT ![p].result = metadata, ![p].log = lg]
       /\ UNCHANGED rq
  ELSE ReplayNext(lg)

\* an error of one replay ends the run of reconcileFailed
Thrown_AbortsRun(p, kind, lg) ==
  IF p = Worker
  THEN /\ pc' = [pc EXCEPT ![p] = "alert"]
       /\ loc' = [loc EXCEPT ![p].err = kind, ![p].log = lg]
       /\ UNCHANGED rq
  ELSE IF p \in Callers
  THEN /\ pc' = [pc EXCEPT ![p] = "thrown"]
       /\ loc' = [loc EXCEPT ![p].err = kind, ![p].log = lg]
       /\ UNCHANGED rq
  ELSE /\ rq' = <<>>
       /\ pc' = [pc EXCEPT ![p] = "idle"]
       /\ loc' = [loc EXCEPT ![p] =
                    [FreshLocals EXCEPT !.log =
                       Append(lg, Call("alert", loc[p].event.contentId,
                                       kind))]]

\* provisionFromUpload throws to its caller
Thrown(p, kind, lg) ==
  IF p = Worker
  THEN /\ pc' = [pc EXCEPT ![p] = "alert"]
       /\ loc' = [loc EXCEPT ![p].err = kind, ![p].log = lg]
       /\ UNCHANGED rq
  ELSE IF p \in Callers
  THEN /\ pc' = [pc EXCEPT ![p] = "thrown"]
       /\ loc' = [loc EXCEPT ![p].err = kind, ![p].log = lg]
       /\ UNCHANGED rq
  ELSE ReplayNext(Append(lg, Call("alert", loc[p].event.contentId, kind)))

(* ------------------- UploadEventWorker.handleMessage ------------------- *)
\* A delivery of message m: handleMessage reads the attempt, parses the
\* event and, when it parses, calls provisionFromUpload, which awaits
\* findByContentId; when it does not parse, the catch awaits ingestFailure.
Deliver(m) ==
  /\ pc[Worker] \in {"idle", "done"}
  /\ Started < MaxOps
  /\ ParseOk(Data(m)) => CanProvision(Data(m).contentId)
  /\ msgs' = [msgs EXCEPT ![m].deliveries = @ + 1]
  /\ wk' = [message |-> PubSubMessage(m, msgs[m].deliveries + 1),
            prevErr |-> msgs[m].lastErr, verdict |-> NoVerdict]
  /\ IF ParseOk(Data(m))
     THEN /\ pc' = [pc EXCEPT ![Worker] = "find"]
          /\ loc' = [loc EXCEPT ![Worker] =
                       [FreshLocals EXCEPT !.event = Data(m)]]
     ELSE /\ pc' = [pc EXCEPT ![Worker] = "alert"]
          /\ loc' = [loc EXCEPT ![Worker] =
                       [FreshLocals EXCEPT !.err = "decode"]]
  /\ UNCHANGED <<store, rq, adm, createdOK, ops, faults>>

\* handleMessage settles: the verdict goes back to the subscription
Settle(verdict, lg) ==
  LET m == wk.message.messageId
  IN /\ pc' = [pc EXCEPT ![Worker] = "done"]
     /\ wk' = [wk EXCEPT !.verdict = verdict]
     /\ loc' = [loc EXCEPT ![Worker].log = lg]
     /\ msgs' = [msgs EXCEPT
          ![m].acked = @ \/ verdict.action = "ack",
          ![m].nacks = IF verdict.action = "nack" /\ ~msgs[m].acked
                       THEN @ + 1 ELSE @,
          ![m].lastErr = loc'[Worker].err]

\* true of a log without a repository write or an engine call
NoWrites(lg) ==
  \A i \in 1..Len(lg) : lg[i].op \notin {"upsert", "createChannel"}

\* skips the notification when provisionFromUpload short-circuited
PublishPlaybackReady_SkippedOnReplay ==
  /\ pc[Worker] = "publish"
  /\ \/ /\ Settle([action |-> "ack"],
                  IF NoWrites(loc[Worker].log) THEN loc[Worker].log
                  ELSE Append(loc[Worker].log,
                         Call("publish", loc[Worker].result.contentId, "ok")))
        /\ UNCHANGED <<store, rq, adm, createdOK, ops, faults>>
     \/ /\ ~NoWrites(loc[Worker].log)
        /\ Fault
        /\ pc' = [pc EXCEPT ![Worker] = "alert"]
        /\ loc' = [loc EXCEPT
             ![Worker].err = "notify",
             ![Worker].log = Append(@, Call("publish",
                                loc[Worker].result.contentId, "error"))]
        /\ UNCHANGED <<store, msgs, wk, rq, adm, createdOK, ops>>

PublishPlaybackReady ==
  /\ pc[Worker] = "publish"
  /\ \/ /\ Settle([action |-> "ack"],
                  Append(loc[Worker].log,
                         Call("publish", loc[Worker].result.contentId, "ok")))
        /\ UNCHANGED <<store, rq, adm, createdOK, ops, faults>>
     \/ /\ Fault
        /\ pc' = [pc EXCEPT ![Worker] = "alert"]
        /\ loc' = [loc EXCEPT
             ![Worker].err = "notify",
             ![Worker].log = Append(@, Call("publish",
                                loc[Worker].result.contentId, "error"))]
        /\ UNCHANGED <<store, msgs, wk, rq, adm, createdOK, ops>>

\* the catch block: await alerting.ingestFailure, then ack or nack
IngestFailure ==
  /\ pc[Worker] = "alert"
  /\ LET cid == IF loc[Worker].event = NoEvent THEN "unknown"
                ELSE loc[Worker].event.contentId
         attempt == AttemptOf(wk.message)
     IN \/ /\ Settle(IF shouldAck(attempt) THEN [action |-> "ack"]
                     ELSE [action |-> "nack",
                           retryInSeconds |-> ackDeadlineSeconds],
                     Append(loc[Worker].log, Call("alert", cid, "ok")))
           /\ UNCHANGED faults
        \/ /\ Fault
           /\ Settle(Rejected,
                     Append(loc[Worker].log, Call("alert", cid, "error")))
  /\ UNCHANGED <<store, rq, adm, createdOK, ops>>

(* ---------------- ChannelProvisioner.provisionFromUpload --------------- *)
\* await repository.findByContentId, the idempotency gate, and the call of
\* the pre-record upsert
FindByContentId(p) ==
  /\ pc[p] = "find"
  /\ LET event == loc[p].event
         existing == store[event.contentId]
         lg == Append(loc[p].log, Call("find", event.contentId, "ok"))
     IN \/ /\ Fault
           /\ Thrown(p, "store", Append(loc[p].log,
                       Call("find", event.contentId, "error")))
        \/ /\ IdempotencyGate(existing, event)
           /\ Returned(p, existing, lg)
           /\ UNCHANGED faults
        \/ /\ ~IdempotencyGate(existing, event)
           /\ UNCHANGED faults
           /\ pc' = [pc EXCEPT ![p] = "pre"]
           /\ loc' = [loc EXCEPT ![p].existing = existing, ![p].log = lg]
           /\ UNCHANGED rq
  /\ UNCHANGED <<store, msgs, wk, adm, createdOK, ops>>

\* await repository.upsert(baseRecord)
UpsertBase(p) ==
  /\ pc[p] = "pre"
  /\ LET base == BaseRecord(loc[p].event, loc[p].existing)
     IN \/ /\ Fault
           /\ Thrown(p, "store", Append(loc[p].log,
                       Call("upsert", base.contentId, "error")))
           /\ UNCHANGED store
        \/ /\ UNCHANGED faults
           /\ store' = [store EXCEPT ![base.contentId] = base]
           /\ pc' = [pc EXCEPT ![p] = "engine"]
           /\ loc' = [loc EXCEPT ![p].log = Append(@, UpsertEff(base))]
           /\ UNCHANGED rq
  /\ UNCHANGED <<msgs, wk, adm, createdOK, ops>>

\* one createChannel call inside withExponentialBackoff
CreateChannel(p) ==
  /\ pc[p] = "engine"
  /\ LET event == loc[p].event
         key == <<event.contentId, event.checksum>>
     IN \/ \E response \in Responses :
             /\ pc' = [pc EXCEPT ![p] = "final"]
             /\ loc' = [loc EXCEPT
                  ![p].response = response,
                  ![p].log = Append(@, Eff("createChannel", event.contentId,
                                           "ok", 0, response.channelId))]
             /\ createdOK' = [createdOK EXCEPT ![key] = Min(@ + 1, CountCap)]
             /\ UNCHANGED faults
        \/ /\ Fault
           /\ pc' = [pc EXCEPT ![p] =
                       IF RetryExhausted(loc[p].tries) THEN "failed"
                       ELSE "engine"]
           /\ loc' = [loc EXCEPT
                ![p].tries = @ + 1,
                ![p].log = Append(@, Call("createChannel", event.contentId,
                                          "error"))]
           /\ UNCHANGED createdOK
  /\ UNCHANGED <<store, msgs, wk, rq, adm, ops>>

\* the catch of the engine error: await repository.upsert(failed), rethrow
UpsertFailed(p) ==
  /\ pc[p] = "failed"
  /\ LET failed == FailedRecord(BaseRecord(loc[p].event, loc[p].existing))
     IN \/ /\ Fault
           /\ Thrown(p, "store", Append(loc[p].log,
                       Call("upsert", failed.contentId, "error")))
           /\ UNCHANGED store
        \/ /\ UNCHANGED faults
           /\ store' = [store EXCEPT ![failed.contentId] = failed]
           /\ Thrown(p, "engine", Append(loc[p].log, UpsertEff(failed)))
  /\ UNCHANGED <<msgs, wk, adm, createdOK, ops>>

\* returns the pre-record instead of the record it stored
UpsertFinal_ReturnsBase(p) ==
  /\ pc[p] = "final"
  /\ LET base == BaseRecord(loc[p].event, loc[p].existing)
         final == FinalRecord(base, loc[p].response)
     IN \/ /\ Fault
           /\ Thrown(p, "store", Append(loc[p].log,
                       Call("upsert", final.contentId, "error")))
           /\ UNCHANGED store
        \/ /\ UNCHANGED faults
           /\ store' = [store EXCEPT ![final.contentId] = final]
           /\ Returned(p, base, Append(loc[p].log, UpsertEff(final)))
  /\ UNCHANGED <<msgs, wk, adm, createdOK, ops>>

\* await repository.upsert(finalRecord); return finalRecord
UpsertFinal(p) ==
  /\ pc[p] = "final"
  /\ LET final == FinalRecord(BaseRecord(loc[p].event, loc[p].existing),
                              loc[p].response)
     IN \/ /\ Fault
           /\ Thrown(p, "store", Append(loc[p].log,
                       Call("upsert", final.contentId, "error")))
           /\ UNCHANGED store
        \/ /\ UNCHANGED faults
           /\ store' = [store EXCEPT ![final.contentId] = final]
           /\ Returned(p, final, Append(loc[p].log, UpsertEff(final)))
  /\ UNCHANGED <<msgs, wk, adm, createdOK, ops>>

(* ---------------- ReconciliationService.reconcileFailed ---------------- *)
\* the for loop over the listed records starts the first replay
StartReplay(failed) ==
  /\ pc[Reconciler] = "idle"
  /\ failed # <<>>
  /\ rq' = failed
  /\ pc' = [pc EXCEPT ![Reconciler] = "find"]
  /\ loc' = [loc EXCEPT ![Reconciler] =
               [FreshLocals EXCEPT !.event = ReplayEvent(failed[1])]]
  /\ UNCHANGED <<store, msgs, wk, adm, createdOK, faults>>

\* await repository.listFailed(limit), then the loop
ReconcileFailed(limit) ==
  /\ \E failed \in ListFailed(limit) :
       /\ \A i \in 1..Len(failed) : CanProvision(failed[i].contentId)
       /\ StartReplay(failed)
  /\ Started < MaxOps
  /\ ops' = [ops EXCEPT !.reconcile = @ + 1]

\* a run of reconcileFailed(limit) that the external scheduler starts
ReconcileRun(limit) ==
  /\ \E failed \in ListFailed(limit) : StartReplay(failed)
  /\ UNCHANGED ops

(* ---------------------- StreamAdminService.retire ---------------------- *)
\* requireChannel: await repository.findByContentId; throws when absent
RequireChannel(c) ==
  /\ pc[Admin] = "idle"
  /\ store[c] # NoRecord
  /\ adm' = store[c]
  /\ pc' = [pc EXCEPT ![Admin] = "r_delete"]
  /\ Started < MaxOps
  /\ ops' = [ops EXCEPT !.retire = @ + 1]
  /\ UNCHANGED <<store, msgs, loc, wk, rq, createdOK, faults>>

\* await omeClient.deleteChannel(record.channelId)
DeleteChannel ==
  /\ pc[Admin] = "r_delete"
  /\ \/ pc' = [pc EXCEPT ![Admin] = "r_upsert"] /\ UNCHANGED <<adm, faults>>
     \/ pc' = [pc EXCEPT ![Admin] = "idle"] /\ adm' = NoRecord /\ Fault
  /\ UNCHANGED <<store, msgs, loc, wk, rq, createdOK, ops>>

\* await repository.upsert({...record, status: "retired"})
UpsertRetired ==
  /\ pc[Admin] = "r_upsert"
  /\ \/ /\ store' = [store EXCEPT ![adm.contentId] = RetiredRecord(adm)]
        /\ pc' = [pc EXCEPT ![Admin] = "r_purge"]
        /\ adm' = NoRecord
        /\ UNCHANGED faults
     \/ /\ Fault
        /\ pc' = [pc EXCEPT ![Admin] = "idle"]
        /\ adm' = NoRecord
        /\ UNCHANGED store
  /\ UNCHANGED <<msgs, loc, wk, rq, createdOK, ops>>

\* await cdnClient.purge(record.manifestPath)
Purge ==
  /\ pc[Admin] = "r_purge"
  /\ pc' = [pc EXCEPT ![Admin] = "idle"]
  /\ UNCHANGED <<store, msgs, loc, wk, rq, adm, createdOK, ops, faults>>

(* ---------------------------- specification ---------------------------- *)
Next ==
  \/ \E m \in MessageIds : Deliver(m)
  \/ \E p \in Provisioners : FindByContentId(p)
  \/ \E p \in Provisioners : UpsertBase(p)
  \/ \E p \in Provisioners : CreateChannel(p)
  \/ \E p \in Provisioners : UpsertFailed(p)
  \/ \E p \in Provisioners : UpsertFinal(p)
  \/ PublishPlaybackReady
  \/ IngestFailure
  \/ \E limit \in Limits : ReconcileFailed(limit)
  \/ \E c \in ContentIds : RequireChannel(c)
  \/ DeleteChannel
  \/ UpsertRetired
  \/ Purge

Spec == Init /\ [][Next]_vars

(* --------------------- reconciliation on its own ----------------------- *)
\* the record a first provisioning leaves when the engine fails every attempt
FailedShape(c, s) ==
  FailedRecord(BaseRecord(UploadCompletedEvent(c, s), NoRecord))

\* the record a first provisioning leaves when the engine succeeds
ReadyShape(c, s) ==
  FinalRecord(BaseRecord(UploadCompletedEvent(c, s), NoRecord),
              [channelId |-> "ch1", originEndpoint |-> "origin1"])

\* a store that earlier provisionings have left behind, every task idle
InitReconcile ==
  /\ store \in [ContentIds ->
                  {NoRecord} \cup
                  UNION { {FailedShape(c, s) : s \in Checksums} \cup
                          {ReadyShape(c, "s1")} : c \in ContentIds }]
  /\ \A c \in ContentIds : store[c] # NoRecord => store[c].contentId = c
  /\ msgs = [m \in MessageIds |->
               [deliveries |-> 0, nacks |-> 0, acked |-> FALSE,
                lastErr |-> "none"]]
  /\ pc = [p \in Procs |-> "idle"]
  /\ loc = [p \in Provisioners |-> FreshLocals]
  /\ wk = FreshWorker
  /\ rq = <<>>
  /\ adm = NoRecord
  /\ createdOK = [k \in ContentIds \X Checksums |-> 0]
  /\ ops = [retire |-> 0, reconcile |-> 0]
  /\ faults = 0

\* the steps of the replays of a run
Replay ==
  \/ FindByContentId(Reconciler)
  \/ UpsertBase(Reconciler)
  \/ CreateChannel(Reconciler)
  \/ UpsertFailed(Reconciler)
  \/ UpsertFinal(Reconciler)

NextReconcile ==
  \/ \E limit \in Limits : ReconcileRun(limit)
  \/ Replay

SpecReconcile == InitReconcile /\ [][NextReconcile]_vars

\* the scheduler starts runs again and again, and a replay that can take a
\* step takes it
FairReconcile ==
  /\ SpecReconcile
  /\ WF_vars(\E limit \in Limits : ReconcileRun(limit))
  /\ WF_vars(Replay)

(* ------------------ concurrent provisionFromUpload calls --------------- *)
\* a task calls provisionFromUpload(event), which awaits findByContentId
ProvisionFromUpload(p, event) ==
  /\ pc[p] = "idle"
  /\ pc' = [pc EXCEPT ![p] = "find"]
  /\ loc' = [loc EXCEPT ![p] = [FreshLocals EXCEPT !.event = event]]
  /\ UNCHANGED <<store, msgs, wk, rq, adm, createdOK, ops, faults>>

\* the events the two calls are made with
RaceEvents == {UploadCompletedEvent("c1", s) : s \in Checksums}

\* the content of the calls is absent, failed or ready in the store
InitRace ==
  /\ store \in [ContentIds ->
                  {NoRecord} \cup {FailedShape("c1", s) : s \in Checksums}
                            \cup {ReadyShape("c1", "s2")}]
  /\ store["c2"] = NoRecord
  /\ msgs = [m \in MessageIds |->
               [deliveries |-> 0, nacks |-> 0, acked |-> FALSE,
                lastErr |-> "none"]]
  /\ pc = [p \in Procs |-> "idle"]
  /\ loc = [p \in Provisioners |-> FreshLocals]
  /\ wk = FreshWorker
  /\ rq = <<>>
  /\ adm = NoRecord
  /\ createdOK = [k \in ContentIds \X Checksums |-> 0]
  /\ ops = [retire |-> 0, reconcile |-> 0]
  /\ faults = 0

NextRace ==
  \/ \E p \in Callers, event \in RaceEvents : ProvisionFromUpload(p, event)
  \/ \E p \in Callers : FindByContentId(p)
  \/ \E p \in Callers : UpsertBase(p)
  \/ \E p \in Callers : CreateChannel(p)
  \/ \E p \in Callers : UpsertFailed(p)
  \/ \E p \in Callers : UpsertFinal(p)

SpecRace == InitRace /\ [][NextRace]_vars

(* ------------------------------ properties ----------------------------- *)
\* task p takes a step
Stepped(p) == loc'[p] # loc[p] \/ pc'[p] # pc[p]

\* the stored record of the event's content is ready with the event's checksum
ReadyMatch(event) ==
  /\ store[event.contentId] # NoRecord
  /\ store[event.contentId].status = "ready"
  /\ store[event.contentId].checksum = event.checksum

\* handleMessage has settled the current delivery
Done == pc[Worker] = "done"

HasEffect(lg, op) == \E i \in 1..Len(lg) : lg[i].op = op

\* the handling failed with attempt >= maxDeliveryAttempts and was acked
PoisonDrop ==
  /\ Done
  /\ loc[Worker].err # "none"
  /\ AttemptOf(wk.message) >= maxDeliveryAttempts
  /\ wk.verdict.action = "ack"

\* C1: when the lookup of provisionFromUpload(E) meets a stored record that is
\* ready with E's checksum, the call makes no upsert and no createChannel
\* call, leaves the store unchanged and, the lookup having succeeded, returns
\* exactly the stored record to its caller.
C1_IdempotentReady ==
  [][\A p \in Provisioners :
       (pc[p] = "find" /\ Stepped(p) /\ ReadyMatch(loc[p].event)) =>
          /\ store' = store
          /\ createdOK' = createdOK
          /\ faults' = faults =>
               /\ p = Worker =>
                    /\ pc'[p] = "publish"
                    /\ loc'[p].result = store[loc[p].event.contentId]
                    /\ loc'[p].log = Append(loc[p].log,
                          Call("find", loc[p].event.contentId, "ok"))
               /\ p = Reconciler =>
                    /\ rq' = Tail(rq)
                    /\ loc'[p].log = Append(loc[p].log,
                          Call("find", loc[p].event.contentId, "ok"))
    ]_vars

C1_Witness ==
  /\ pc[Worker] = "publish"
  /\ loc[Worker].log = <<Call("find", loc[Worker].event.contentId, "ok")>>
  /\ loc[Worker].result = store[loc[Worker].event.contentId]
  /\ loc[Worker].result.status = "ready"
  /\ loc[Worker].result.checksum = loc[Worker].event.checksum

\* C2: as long as only upload events are handled (one at a time per content,
\* redelivered after any failure), createChannel completes successfully at
\* most once for each (contentId, checksum) pair.
C2_CreatedAtMostOnce ==
  (ops.retire = 0 /\ ops.reconcile = 0) =>
     \A k \in ContentIds \X Checksums : createdOK[k] <= 1

\* the status edges of the provisioning state machine
Edge(old, new) ==
  \/ old.status = "absent" /\ new.status = "provisioning"
  \/ old.status = "provisioning" /\ new.status \in {"ready", "failed"}
  \/ old.status = "failed" /\ new.status = "provisioning"
  \/ /\ old.status = "ready" /\ new.status = "provisioning"
     /\ old.checksum # new.checksum
  \/ old.status = "ready" /\ new.status = "retired"

\* C3: every change of a stored record follows one of the edges
\* absent->provisioning, provisioning->ready, provisioning->failed,
\* failed->provisioning, ready->provisioning (checksum differs), ready->retired.
C3_StateClosure ==
  [][\A c \in ContentIds : store'[c] # store[c] => Edge(store[c], store'[c])
    ]_vars

\* C4: once a record is retired, no step of handleMessage or of
\* reconcileFailed changes it.
C4_RetiredIsTerminal ==
  [][\A c \in ContentIds :
       (store[c].status = "retired" /\ pc'[Admin] = pc[Admin]) =>
          store'[c] = store[c]
    ]_vars

\* C5: the retries value written by an upsert is never less than the retries
\* value of the record it replaces.
C5_MonotoneRetries ==
  [][\A c \in ContentIds :
       (store[c] # NoRecord /\ store'[c] # store[c]) =>
          store'[c].retries >= store[c].retries
    ]_vars

\* C6: a message that carries deliveryAttempt is nacked at most
\* maxDeliveryAttempts times before it is acked.
C6_PoisonBound ==
  \A m \in MessageIds :
     CarriesAttempt(m) => msgs[m].nacks <= maxDeliveryAttempts

C6_Witness ==
  /\ PoisonDrop
  /\ CarriesAttempt(wk.message.messageId)
  /\ msgs[wk.message.messageId].nacks = maxDeliveryAttempts - 1

\* C7: whenever decode, provisioning or notification fails, handleMessage
\* results in ack if attempt >= maxDeliveryAttempts and in nack with
\* retryInSeconds = ackDeadlineSeconds otherwise.
C7_FailureVerdict ==
  (Done /\ loc[Worker].err # "none") =>
     wk.verdict = IF AttemptOf(wk.message) >= maxDeliveryAttempts
                  THEN [action |-> "ack"]
                  ELSE [action |-> "nack",
                        retryInSeconds |-> ackDeadlineSeconds]

\* C8: handleMessage always completes with an ack or a nack, also when the
\* alerting sink fails.
C8_AlwaysVerdict == Done => wk.verdict.action \in {"ack", "nack"}

\* C9 as stated: whenever a message is dropped as poison, the alerting sink
\* was called and the store holds a failed record for the message's content.
C9_PoisonLeavesFailedRecord ==
  PoisonDrop =>
     /\ HasEffect(loc[Worker].log, "alert")
     /\ store[wk.message.data.contentId].status = "failed"

\* C9 amended: whenever a message is dropped as poison, the alerting sink was
\* called for it as the last effect of the handling (with the event's
\* contentId, "unknown" when the event did not parse), and the handling stored
\* a failed record exactly when the failure was the engine's: after a decode,
\* repository or notification failure it stored none.
C9_PoisonAlerted ==
  PoisonDrop =>
     LET lg == loc[Worker].log
     IN /\ lg # <<>>
        /\ lg[Len(lg)] =
             Call("alert", IF loc[Worker].event = NoEvent THEN "unknown"
                           ELSE loc[Worker].event.contentId, "ok")
        /\ loc[Worker].err = "engine" <=>
             \E i \in 1..Len(lg) :
                /\ lg[i].op = "upsert"
                /\ lg[i].status = "failed"
                /\ lg[i].cid = wk.message.data.contentId

C9_Witness == PoisonDrop /\ loc[Worker].err = "engine"

\* provisionFromUpload returned metadata without a write or an engine call
ShortCircuited ==
  loc[Worker].result # NoRecord /\ NoWrites(loc[Worker].log)

\* C10 as stated: on the redelivery of a message whose notification failed,
\* the gate short-circuits and publishPlaybackReady is not called again.
C10_RenotifySkipped ==
  (Done /\ wk.prevErr = "notify" /\ ShortCircuited) =>
     ~HasEffect(loc[Worker].log, "publish")

\* C10 amended: when publishPlaybackReady fails, the returned record is ready
\* and handleMessage results in nack when attempt < maxDeliveryAttempts, in
\* ack when attempt >= maxDeliveryAttempts, or rejects when the alerting call
\* fails; on the redelivery, when the gate short-circuits,
\* publishPlaybackReady is called again for the stored record.
C10_Renotified ==
  /\ (Done /\ loc[Worker].err = "notify") =>
        /\ loc[Worker].result.status = "ready"
        /\ wk.verdict \in
             { Rejected,
               IF AttemptOf(wk.message) >= maxDeliveryAttempts
               THEN [action |-> "ack"]
               ELSE [action |-> "nack",
                     retryInSeconds |-> ackDeadlineSeconds] }
        /\ wk.verdict = Rejected <=>
             loc[Worker].log[Len(loc[Worker].log)].status = "error"
  /\ (Done /\ wk.prevErr = "notify" /\ ShortCircuited) =>
        \E i \in 1..Len(loc[Worker].log) :
           /\ loc[Worker].log[i].op = "publish"
           /\ loc[Worker].log[i].cid = wk.message.data.contentId

C10_Witness ==
  /\ Done
  /\ wk.prevErr = "notify"
  /\ ShortCircuited
  /\ wk.verdict = [action |-> "ack"]
  /\ loc[Worker].err = "none"

\* C11: every stored record that is ready has a channelId and an
\* originEndpoint other than "pending".
C11_ReadyIsAssigned ==
  \A c \in ContentIds :
     store[c].status = "ready" =>
        /\ store[c].channelId # "pending"
        /\ store[c].originEndpoint # "pending"

C11_Witness ==
  \E c \in ContentIds :
     /\ store[c].status = "ready"
     /\ \E r \in Responses : store[c].channelId = r.channelId

\* C12: every stored record's cacheKey is the hash of its own contentId and
\* checksum, and an upsert that changes the checksum of a record changes its
\* cacheKey.
C12_CacheKeyOfRecord ==
  [][\A c \in ContentIds :
       store'[c] # NoRecord =>
          /\ store'[c].cacheKey =
               buildCacheKey(store'[c].contentId, store'[c].checksum)
          /\ (store[c] # NoRecord /\ store'[c].checksum # store[c].checksum)
               => store'[c].cacheKey # store[c].cacheKey
    ]_vars

C12_Witness ==
  \E p \in Provisioners :
     /\ pc[p] = "engine"
     /\ loc[p].existing # NoRecord
     /\ LET rec == store[loc[p].event.contentId]
        IN /\ rec.status = "provisioning"
           /\ rec.checksum # loc[p].existing.checksum
           /\ rec.cacheKey # loc[p].existing.cacheKey

\* the effects of a first provisioning that meets no failure
HappyLog(c, ch) ==
  << Call("find", c, "ok"),
     Eff("upsert", c, "provisioning", 0, "pending"),
     Eff("createChannel", c, "ok", 0, ch),
     Eff("upsert", c, "ready", 0, ch),
     Call("publish", c, "ok") >>

\* C13: for a valid event without a prior record, when no call fails,
\* handleMessage stores the pre-record (provisioning, retries 0, channelId and
\* originEndpoint "pending"), calls createChannel, stores the ready record
\* with the engine's channelId and retries 0, publishes, each exactly once
\* and in this order, and returns ack.
C13_HappyPathOrder ==
  [][/\ (/\ pc[Worker] = "pre" /\ pc'[Worker] = "engine"
         /\ loc[Worker].existing = NoRecord) =>
           LET rec == store'[loc[Worker].event.contentId]
           IN /\ rec.status = "provisioning"
              /\ rec.retries = 0
              /\ rec.channelId = "pending"
              /\ rec.originEndpoint = "pending"
              /\ rec.checksum = loc[Worker].event.checksum
     /\ (/\ pc[Worker] # "done" /\ pc'[Worker] = "done"
         /\ loc'[Worker].event # NoEvent
         /\ loc'[Worker].existing = NoRecord
         /\ ~NoWrites(loc'[Worker].log)
         /\ loc'[Worker].err = "none"
         /\ loc'[Worker].tries = 0) =>
           /\ \E r \in Responses :
                 loc'[Worker].log =
                    HappyLog(loc'[Worker].event.contentId, r.channelId)
           /\ wk'.verdict = [action |-> "ack"]
    ]_vars

C13_Witness ==
  /\ Done
  /\ loc[Worker].log = HappyLog("c1", "ch1")
  /\ wk.verdict = [action |-> "ack"]
  /\ store["c1"].status = "ready"

\* the verdict of a failed handling of the current message
FailureVerdict ==
  IF AttemptOf(wk.message) >= maxDeliveryAttempts
  THEN [action |-> "ack"]
  ELSE [action |-> "nack", retryInSeconds |-> ackDeadlineSeconds]

\* the retries of the pre-record that the provisioning under way has logged
PreRetries(lg) ==
  LET pre == {k \in 1..Len(lg) :
                lg[k].op = "upsert" /\ lg[k].status = "provisioning"}
      i == CHOOSE k \in pre : \A j \in pre : j <= k
  IN lg[i].retries

\* C14: when createChannel fails on every attempt, provisionFromUpload stores
\* a failed record with retries = the pre-record's retries + 1 (1 when there
\* was no prior record) and re-raises; handleMessage then calls
\* alerting.ingestFailure with the contentId and returns nack with
\* retryInSeconds = ackDeadlineSeconds when attempt < maxDeliveryAttempts and
\* ack otherwise.
C14_EngineExhausted ==
  [][/\ \A p \in Provisioners :
          (pc[p] = "failed" /\ Stepped(p) /\ faults' = faults) =>
             LET rec == store'[loc[p].event.contentId]
             IN /\ rec.status = "failed"
                /\ rec.retries = PreRetries(loc[p].log) + 1
                /\ loc[p].existing = NoRecord => rec.retries = 1
     /\ (pc[Worker] = "alert" /\ pc'[Worker] = "done"
         /\ loc[Worker].err = "engine") =>
           /\ HasEffect(loc'[Worker].log, "alert")
           /\ loc'[Worker].log[Len(loc'[Worker].log)].cid =
                 loc[Worker].event.contentId
           /\ wk'.verdict = FailureVerdict
    ]_vars

\* C15: re-provisioning over an existing record with retries r, the
\* pre-record is stored as provisioning with retries r + 1 and, the engine
\* having succeeded, the final record as ready with the same retries r + 1.
C15_ReprovisionRetries ==
  [][\A p \in Provisioners :
       loc[p].existing # NoRecord =>
          LET r == loc[p].existing.retries
              c == loc[p].event.contentId
          IN /\ (pc[p] = "pre" /\ Stepped(p) /\ faults' = faults) =>
                  /\ store'[c].status = "provisioning"
                  /\ store'[c].retries = r + 1
             /\ (pc[p] = "final" /\ Stepped(p) /\ faults' = faults) =>
                  /\ store'[c].status = "ready"
                  /\ store'[c].retries = r + 1
                  /\ PreRetries(loc[p].log) = r + 1
    ]_vars

C15_Witness ==
  /\ pc[Worker] = "publish"
  /\ loc[Worker].existing # NoRecord
  /\ loc[Worker].result.status = "ready"
  /\ loc[Worker].result.retries = loc[Worker].existing.retries + 1
  /\ store[loc[Worker].event.contentId] = loc[Worker].result

\* C16: a message that is not a decodable "media.uploaded" event leads to no
\* lookup, upsert, createChannel or publish; alerting.ingestFailure is called
\* with "unknown" and the handling returns nack when attempt <
\* maxDeliveryAttempts.
C16_UndecodableNacked ==
  (Done /\ loc[Worker].event = NoEvent) =>
     /\ Len(loc[Worker].log) = 1
     /\ loc[Worker].log[1].op = "alert"
     /\ loc[Worker].log[1].cid = "unknown"
     /\ AttemptOf(wk.message) < maxDeliveryAttempts =>
          wk.verdict = [action |-> "nack",
                        retryInSeconds |-> ackDeadlineSeconds]

\* p has stored its pre-record for c and not yet its terminal record
InFlight(p, c) ==
  /\ pc[p] \in {"engine", "final", "failed"}
  /\ loc[p].event.contentId = c

\* C19: a reconcile replay and a live upload event never provision the same
\* contentId at the same time.
C19_NoDoubleBooking ==
  \A c \in ContentIds : ~(InFlight(Worker, c) /\ InFlight(Reconciler, c))

\* the number of lookups of c in an effect log: provisionFromUpload starts
\* with the lookup
Attempts(lg, c) ==
  Cardinality({i \in 1..Len(lg) : lg[i].op = "find" /\ lg[i].cid = c})

\* the replay under way throws in this step
ReplayThrows ==
  \/ pc[Reconciler] = "failed"
  \/ pc[Reconciler] \in {"find", "pre", "final"} /\ faults' # faults

\* C17: in one run of reconcileFailed(limit), provisionFromUpload is attempted
\* once for every record that listFailed(limit) returned; when the replay of a
\* record fails, the error is reported to the alerting sink with that record's
\* contentId, and the remaining records of the run are still replayed.
C17_RunReplaysEveryRecord ==
  [][/\ (pc[Reconciler] = "idle" /\ pc'[Reconciler] # "idle") =>
          /\ \E limit \in Limits : rq' \in ListFailed(limit)
          /\ loc'[Reconciler].log = <<>>
     /\ pc'[Reconciler] # "idle" =>
          /\ rq' # <<>>
          /\ loc'[Reconciler].event = ReplayEvent(Head(rq'))
          /\ Attempts(loc'[Reconciler].log, Head(rq').contentId) =
                IF pc'[Reconciler] = "find" THEN 0 ELSE 1
          /\ \A i \in 2..Len(rq') :
                Attempts(loc'[Reconciler].log, rq'[i].contentId) = 0
     /\ (pc[Reconciler] # "idle" /\ rq' # rq) =>
          LET lg == loc'[Reconciler].log
          IN /\ rq' = Tail(rq)
             /\ Attempts(lg, Head(rq).contentId) = 1
             /\ pc'[Reconciler] = IF rq' = <<>> THEN "idle" ELSE "find"
             /\ IF ReplayThrows
                THEN /\ lg[Len(lg)].op = "alert"
                     /\ lg[Len(lg)].cid = Head(rq).contentId
                ELSE lg[Len(lg)].op # "alert"
    ]_vars

C17_Witness ==
  /\ pc[Reconciler] = "find"
  /\ Len(rq) = 1
  /\ Len(loc[Reconciler].log) > 0
  /\ LET last == loc[Reconciler].log[Len(loc[Reconciler].log)]
     IN /\ last.op = "alert"
        /\ last.cid # Head(rq).contentId
        /\ store[last.cid].status = "failed"

\* C20: once the engine and the store fail no more, with reconcileFailed
\* started again and again, every record that is failed eventually is ready,
\* whatever the limit and the number of failed records.
C20_FailedEventuallyReady ==
  \A c \in ContentIds :
     (store[c].status = "failed" /\ faults = MaxFaults)
        ~> (store[c].status = "ready")

C20_Witness ==
  /\ faults = MaxFaults
  /\ pc[Reconciler] = "idle"
  /\ \A c \in ContentIds : store[c].status = "ready" /\ store[c].retries >= 2

\* C18: when two provisionFromUpload calls for the same contentId and the
\* same checksum have run, interleaved in any order, and both have returned,
\* both returned metadata with status ready and the same cacheKey, and the
\* stored record is ready with that cacheKey.
C18_ConcurrentCallsConverge ==
  (/\ \A p \in Callers : pc[p] = "returned"
   /\ \A p, q \in Callers : loc[p].event = loc[q].event) =>
     \A p \in Callers :
        LET c == loc[p].event.contentId
            key == buildCacheKey(c, loc[p].event.checksum)
        IN /\ loc[p].result.status = "ready"
           /\ loc[p].result.cacheKey = key
           /\ store[c].status = "ready"
           /\ store[c].cacheKey = key

\* both calls went past the gate, each created a channel, and both returned
C18_Witness ==
  /\ \A p \in Callers :
        /\ pc[p] = "returned"
        /\ HasEffect(loc[p].log, "createChannel")
        /\ loc[p].event = UploadCompletedEvent("c1", "s1")
  /\ loc["call1"].result.channelId # loc["call2"].result.channelId
  /\ store["c1"].status = "ready"

\* the record of c is provisioning and no provisionFromUpload call that
\* stored it is still under way
LeftProvisioning(c) ==
  /\ store[c].status = "provisioning"
  /\ \A p \in Provisioners : ~InFlight(p, c)

\* C21: a record left in provisioning is never changed by a step of
\* reconcileFailed, whatever the number of runs.
C21_ProvisioningUntouched ==
  [][\A c \in ContentIds :
       (LeftProvisioning(c) /\ Stepped(Reconciler)) => store'[c] = store[c]
    ]_vars

\* the effect log holds a stored ready record of c
MadeReady(lg, c) ==
  \E i \in 1..Len(lg) :
     lg[i].op = "upsert" /\ lg[i].cid = c /\ lg[i].status = "ready"

\* C22: reconcileFailed never calls publishPlaybackReady, also for a record
\* it moves from failed to ready; every playback-ready notification is
\* published by handleMessage, for the contentId of the upload event it is
\* handling.
C22_ReplayNeverNotifies ==
  /\ ~HasEffect(loc[Reconciler].log, "publish")
  /\ \A i \in 1..Len(loc[Worker].log) :
        loc[Worker].log[i].op = "publish" =>
           /\ ParseOk(wk.message.data)
           /\ loc[Worker].log[i].cid = wk.message.data.contentId

\* a replay has made c1 ready without a notification, and the handling of a
\* later upload event for c1 has published one
C22_Witness ==
  /\ pc[Reconciler] = "idle"
  /\ MadeReady(loc[Reconciler].log, "c1")
  /\ store["c1"].status = "ready"
  /\ Done
  /\ NoWrites(loc[Worker].log)
  /\ \E i \in 1..Len(loc[Worker].log) :
        loc[Worker].log[i] = Call("publish", "c1", "ok")

====
